---- MODULE Spec2Model ----
(***************************************************************************)
(* Model of the `modified` crate: Modified<T> (src/src/modify.rs), a value *)
(* with a "was it modified" flag, and Resetable<T> (src/src/reset.rs), a   *)
(* Modified<T> whose flag can be cleared.                                  *)
(*                                                                         *)
(* A Modified<T> is the tuple struct Modified(T, bool): it is modelled as  *)
(* the tuple <<value, flag>>, so the Rust fields self.0 / self.1 are       *)
(* self[1] / self[2] here.  A Resetable<T> is Resetable(Modified<T>): the  *)
(* tuple <<modified>>, so self.0 is self[1], self.0.0 is self[1][1] and    *)
(* self.0.1 is self[1][2].                                                 *)
(*                                                                         *)
(* Every method is an operator that returns [self |-> the receiver after   *)
(* the call, ret |-> the returned value(s) as a tuple]; a method that      *)
(* takes self by value leaves Moved behind.  T is instantiated with the    *)
(* integers 0..MaxVal, whose default value is 0 (i32::default()).          *)
(***************************************************************************)
EXTENDS Integers, Sequences, FiniteSets, TLC

\* Largest payload value of the model; payloads are 0..MaxVal.
MaxVal == 2

Values == 0 .. MaxVal

\* The caller's count of resets of an instance stops at MaxResets (the count
\* saturates; reset itself stays enabled).
MaxResets == 2

\* <T as Default>::default() for the integer payload.
T_default == 0

\* An empty slot: no instance constructed yet, or the instance was moved out.
Moved == << >>

-----------------------------------------------------------------------------
(* Modified<T>, src/src/modify.rs                                          *)

Modified_new(v) == <<v, FALSE>>

\* A new_modified that forgets the mark.
Modified_new_modified_clean(v) == <<v, FALSE>>

Modified_new_modified(v) == <<v, TRUE>>

Modified_default == <<T_default, FALSE>>

Modified_default_modified == <<T_default, TRUE>>

\* deref: &self.0; the receiver is untouched.
Modified_deref(self) == [self |-> self, ret |-> <<self[1]>>]

\* A deref_mut that forgets to mark the flag.
Modified_deref_mut_unmarked(self) == [self |-> self, ret |-> <<self[1]>>]

\* deref_mut: self.1 = true; then &mut self.0 is handed out.
Modified_deref_mut(self) == [self |-> <<self[1], TRUE>>, ret |-> <<self[1]>>]

\* An assignment that is lost.
Modified_assign_lost(self, v) == self

\* `*p = v` for the reference p = &mut self.0 that deref_mut handed out:
\* writes field 0 and nothing else.
Modified_assign(self, v) == <<v, self[2]>>

\* A set that rebuilds the wrapper with new(v).
Modified_set_renew(self, v) == [self |-> <<v, FALSE>>, ret |-> << >>]

\* set: **self = v, that is *deref_mut(self) = v.
Modified_set(self, v) ==
    [self |-> Modified_assign(Modified_deref_mut(self).self, v), ret |-> << >>]

\* A get that goes through the mutable path.
Modified_get_marking(self) == [self |-> <<self[1], TRUE>>, ret |-> <<self[1]>>]

Modified_get(self) == [self |-> self, ret |-> <<self[1]>>]

Modified_get_value_changed(self) == [self |-> self, ret |-> <<self[1], self[2]>>]

Modified_into_inner(self) == [self |-> Moved, ret |-> <<self[1]>>]

\* An into_inner_changed that reports the flag as clean.
Modified_into_inner_changed_clean(self) == [self |-> Moved, ret |-> <<self[1], FALSE>>]

Modified_into_inner_changed(self) == [self |-> Moved, ret |-> <<self[1], self[2]>>]

Modified_is_modified(self) == [self |-> self, ret |-> <<self[2]>>]

\* An is_unchanged that answers as is_modified does.
Modified_is_unchanged_same(self) == [self |-> self, ret |-> <<self[2]>>]

Modified_is_unchanged(self) == [self |-> self, ret |-> <<~self[2]>>]

\* A clone that starts the copy as unmodified.
Modified_clone_fresh(self) == [self |-> self, ret |-> <<<<self[1], FALSE>>>>]

\* clone: Self(self.0.clone(), self.1); ret is the new Modified.
Modified_clone(self) == [self |-> self, ret |-> <<<<self[1], self[2]>>>>]

\* An into that builds the Resetable with Resetable::new(self.0).
Modified_into_fresh(self) == [self |-> Moved, ret |-> <<<<<<self[1], FALSE>>>>>>]

\* into: Resetable(self); ret is the new Resetable.
Modified_into(self) == [self |-> Moved, ret |-> <<<<self>>>>]

-----------------------------------------------------------------------------
(* Resetable<T>, src/src/reset.rs                                          *)

Resetable_new(v) == <<Modified_new(v)>>

Resetable_new_modified(v) == <<Modified_new_modified(v)>>

Resetable_default == <<Modified_default>>

Resetable_default_modified == <<Modified_default_modified>>

\* A reset that rebuilds the wrapper from T's default value.
Resetable_reset_default(self) == [self |-> <<Modified_default>>, ret |-> << >>]

\* A reset that leaves the flag as it is.
Resetable_reset_noop(self) == [self |-> self, ret |-> << >>]

\* A reset that flips the flag.
Resetable_reset_toggle(self) == [self |-> <<<<self[1][1], ~self[1][2]>>>>, ret |-> << >>]

\* reset: self.0.1 = false.
Resetable_reset(self) == [self |-> <<<<self[1][1], FALSE>>>>, ret |-> << >>]

\* deref: &*self.0, the inner Modified's deref.
Resetable_deref(self) ==
    [self |-> <<Modified_deref(self[1]).self>>, ret |-> Modified_deref(self[1]).ret]

\* A deref_mut that reaches the value without the inner deref_mut.
Resetable_deref_mut_unmarked(self) == [self |-> self, ret |-> <<self[1][1]>>]

\* deref_mut: &mut *self.0, the inner Modified's deref_mut.
Resetable_deref_mut(self) ==
    [self |-> <<Modified_deref_mut(self[1]).self>>, ret |-> Modified_deref_mut(self[1]).ret]

\* An assignment that is lost.
Resetable_assign_lost(self, v) == self

\* `*p = v` for the reference p that deref_mut handed out.
Resetable_assign(self, v) == <<Modified_assign(self[1], v)>>

\* A set that rebuilds the wrapper with new(v).
Resetable_set_renew(self, v) == [self |-> <<<<v, FALSE>>>>, ret |-> << >>]

\* set: **self = v, that is *deref_mut(self) = v.
Resetable_set(self, v) ==
    [self |-> Resetable_assign(Resetable_deref_mut(self).self, v), ret |-> << >>]

\* get: &self.0 coerced from &Modified<T> to &T by the inner deref.
Resetable_get(self) ==
    [self |-> <<Modified_deref(self[1]).self>>, ret |-> Modified_deref(self[1]).ret]

\* A get_value_changed that always reports the flag as clean.
Resetable_get_value_changed_stale(self) == [self |-> self, ret |-> <<self[1][1], FALSE>>]

\* get_value_changed: (&self.0 coerced to &T, self.0.1).
Resetable_get_value_changed(self) ==
    [self |-> <<Modified_deref(self[1]).self>>,
     ret  |-> <<Modified_deref(self[1]).ret[1], self[1][2]>>]

Resetable_into_inner(self) == [self |-> Moved, ret |-> <<self[1][1]>>]

Resetable_into_inner_changed(self) == [self |-> Moved, ret |-> <<self[1][1], self[1][2]>>]

Resetable_is_modified(self) == [self |-> self, ret |-> <<self[1][2]>>]

Resetable_is_unchanged(self) == [self |-> self, ret |-> <<~self[1][2]>>]

\* clone: Self(self.0.clone()); ret is the new Resetable.
Resetable_clone(self) ==
    [self |-> <<Modified_clone(self[1]).self>>, ret |-> <<<<Modified_clone(self[1]).ret[1]>>>>]

-----------------------------------------------------------------------------
(* The client program: one Modified slot m, one Resetable slot r, the      *)
(* latest clone of each (mc, rc), and the &mut T that deref_mut handed out *)
(* for each (mb, rb), live until the caller lets it go.  Instances share   *)
(* nothing, so the client constructs a new one only when it owns none: m   *)
(* and r are never live together (into moves m into r), and the clones of  *)
(* the previous instance are dropped by then.                              *)

VARIABLES
    m,      \* the Modified<T> instance, or Moved
    r,      \* the Resetable<T> instance, or Moved
    mc,     \* the latest m.clone(), or Moved
    rc,     \* the latest r.clone(), or Moved
    mb,     \* the mutable borrow of m: [live, pre, wrote]
    rb,     \* the mutable borrow of r: [live, pre, wrote]
    last,   \* observation of the latest call: [op, tgt, arg, ret, pre, wrote]
    hist    \* per instance, what the caller did to it: [stored, mut, born]

vars == <<m, r, mc, rc, mb, rb, last, hist>>

Slots == {"m", "r", "mc", "rc"}

NoBorrow == [live |-> FALSE, pre |-> Moved, wrote |-> FALSE]

\* hist[s].stored: the value the caller last stored in the instance
\*                 (constructor argument, set, or write through a borrow);
\* hist[s].mut:    the caller used set or took a mutable borrow since the
\*                 instance was constructed or last reset;
\* hist[s].born:   the instance was created already marked (new_modified,
\*                 default_modified, clone of a marked instance) and has not
\*                 been reset since;
\* hist[s].resets: how many times the caller reset the instance since it was
\*                 constructed, counted up to MaxResets.
Hist(v, mu, b) == [stored |-> v, mut |-> mu, born |-> b, resets |-> 0]

NoHist == Hist(T_default, FALSE, FALSE)

Obs(op, tgt, arg, ret, pre, wrote) ==
    [op |-> op, tgt |-> tgt, arg |-> arg, ret |-> ret, pre |-> pre, wrote |-> wrote]

Init ==
    /\ m = Moved /\ r = Moved /\ mc = Moved /\ rc = Moved
    /\ mb = NoBorrow /\ rb = NoBorrow
    /\ last = Obs("init", "m", << >>, << >>, Moved, FALSE)
    /\ hist = [s \in Slots |-> NoHist]

-----------------------------------------------------------------------------
(* Calls on the Modified instance                                          *)

\* A constructor call binding the result to the empty slot m.
MMake(op, arg, self, h) ==
    /\ m = Moved /\ r = Moved
    /\ m' = self
    /\ mc' = Moved /\ rc' = Moved
    /\ last' = Obs(op, "m", arg, << >>, Moved, FALSE)
    /\ hist' = [s \in Slots |-> IF s = "m" THEN h ELSE NoHist]
    /\ UNCHANGED <<r, mb, rb>>

\* A method call on m; the borrow checker rules it out while &mut T is live.
MCall(op, arg, res, h) ==
    /\ m # Moved /\ ~mb.live
    /\ m' = res.self
    /\ last' = Obs(op, "m", arg, res.ret, m, FALSE)
    /\ hist' = [hist EXCEPT !["m"] = h]
    /\ UNCHANGED <<r, mc, rc, mb, rb>>

MNew == \E v \in Values : MMake("new", <<v>>, Modified_new(v), Hist(v, FALSE, FALSE))

MNewModified ==
    \E v \in Values :
        MMake("new_modified", <<v>>, Modified_new_modified(v), Hist(v, FALSE, TRUE))

MDefault == MMake("default", << >>, Modified_default, Hist(T_default, FALSE, FALSE))

MDefaultModified ==
    MMake("default_modified", << >>, Modified_default_modified, Hist(T_default, FALSE, TRUE))

MSet ==
    \E v \in Values :
        MCall("set", <<v>>, Modified_set(m, v), Hist(v, TRUE, hist["m"].born))

MGet == MCall("get", << >>, Modified_get(m), hist["m"])

MGetValueChanged == MCall("get_value_changed", << >>, Modified_get_value_changed(m), hist["m"])

MIsModified == MCall("is_modified", << >>, Modified_is_modified(m), hist["m"])

MIsUnchanged == MCall("is_unchanged", << >>, Modified_is_unchanged(m), hist["m"])

MDeref == MCall("deref", << >>, Modified_deref(m), hist["m"])

MIntoInner == MCall("into_inner", << >>, Modified_into_inner(m), hist["m"])

MIntoInnerChanged ==
    MCall("into_inner_changed", << >>, Modified_into_inner_changed(m), hist["m"])

\* let mc = m.clone();
MClone ==
    /\ m # Moved /\ ~mb.live
    /\ m' = Modified_clone(m).self
    /\ mc' = Modified_clone(m).ret[1]
    /\ last' = Obs("clone", "m", << >>, Modified_clone(m).ret, m, FALSE)
    /\ hist' = [hist EXCEPT !["mc"] =
                    Hist(hist["m"].stored, FALSE, hist["m"].mut \/ hist["m"].born)]
    /\ UNCHANGED <<r, rc, mb, rb>>

\* let r: Resetable<T> = m.into();  the instance moves, with its history.
MInto ==
    /\ m # Moved /\ ~mb.live
    /\ m' = Modified_into(m).self
    /\ r' = Modified_into(m).ret[1]
    /\ last' = Obs("into", "m", << >>, Modified_into(m).ret, m, FALSE)
    /\ hist' = [hist EXCEPT !["r"] = hist["m"], !["m"] = NoHist]
    /\ UNCHANGED <<mc, rc, mb, rb>>

\* let p = m.deref_mut();  the flag is written here, p stays live.
MDerefMut ==
    /\ m # Moved /\ ~mb.live
    /\ m' = Modified_deref_mut(m).self
    /\ mb' = [live |-> TRUE, pre |-> m, wrote |-> FALSE]
    /\ last' = Obs("deref_mut", "m", << >>, Modified_deref_mut(m).ret, m, FALSE)
    /\ hist' = [hist EXCEPT !["m"].mut = TRUE]
    /\ UNCHANGED <<r, mc, rc, rb>>

\* *p = v;
MAssign ==
    /\ mb.live
    /\ \E v \in Values :
        /\ m' = Modified_assign(m, v)
        /\ last' = Obs("assign", "m", <<v>>, << >>, m, TRUE)
        /\ hist' = [hist EXCEPT !["m"].stored = v]
    /\ mb' = [mb EXCEPT !.wrote = TRUE]
    /\ UNCHANGED <<r, mc, rc, rb>>

\* p goes out of scope; last.pre is the instance as it was before deref_mut.
MRelease ==
    /\ mb.live
    /\ mb' = NoBorrow
    /\ last' = Obs("release", "m", << >>, << >>, mb.pre, mb.wrote)
    /\ UNCHANGED <<m, r, mc, rc, rb, hist>>

-----------------------------------------------------------------------------
(* Calls on the Resetable instance                                         *)

\* A constructor call binding the result to the empty slot r.
RMake(op, arg, self, h) ==
    /\ r = Moved /\ m = Moved
    /\ r' = self
    /\ mc' = Moved /\ rc' = Moved
    /\ last' = Obs(op, "r", arg, << >>, Moved, FALSE)
    /\ hist' = [s \in Slots |-> IF s = "r" THEN h ELSE NoHist]
    /\ UNCHANGED <<m, mb, rb>>

\* A method call on r; the borrow checker rules it out while &mut T is live.
RCall(op, arg, res, h) ==
    /\ r # Moved /\ ~rb.live
    /\ r' = res.self
    /\ last' = Obs(op, "r", arg, res.ret, r, FALSE)
    /\ hist' = [hist EXCEPT !["r"] = h]
    /\ UNCHANGED <<m, mc, rc, mb, rb>>

RNew == \E v \in Values : RMake("new", <<v>>, Resetable_new(v), Hist(v, FALSE, FALSE))

RNewModified ==
    \E v \in Values :
        RMake("new_modified", <<v>>, Resetable_new_modified(v), Hist(v, FALSE, TRUE))

RDefault == RMake("default", << >>, Resetable_default, Hist(T_default, FALSE, FALSE))

RDefaultModified ==
    RMake("default_modified", << >>, Resetable_default_modified, Hist(T_default, FALSE, TRUE))

RReset ==
    RCall("reset", << >>, Resetable_reset(r),
          [hist["r"] EXCEPT !.mut = FALSE, !.born = FALSE,
                            !.resets = IF @ < MaxResets THEN @ + 1 ELSE @])

RSet ==
    \E v \in Values :
        RCall("set", <<v>>, Resetable_set(r, v),
              [hist["r"] EXCEPT !.stored = v, !.mut = TRUE])

RGet == RCall("get", << >>, Resetable_get(r), hist["r"])

RGetValueChanged == RCall("get_value_changed", << >>, Resetable_get_value_changed(r), hist["r"])

RIsModified == RCall("is_modified", << >>, Resetable_is_modified(r), hist["r"])

RIsUnchanged == RCall("is_unchanged", << >>, Resetable_is_unchanged(r), hist["r"])

RDeref == RCall("deref", << >>, Resetable_deref(r), hist["r"])

RIntoInner == RCall("into_inner", << >>, Resetable_into_inner(r), hist["r"])

RIntoInnerChanged ==
    RCall("into_inner_changed", << >>, Resetable_into_inner_changed(r), hist["r"])

\* let rc = r.clone();
RClone ==
    /\ r # Moved /\ ~rb.live
    /\ r' = Resetable_clone(r).self
    /\ rc' = Resetable_clone(r).ret[1]
    /\ last' = Obs("clone", "r", << >>, Resetable_clone(r).ret, r, FALSE)
    /\ hist' = [hist EXCEPT !["rc"] =
                    Hist(hist["r"].stored, FALSE, hist["r"].mut \/ hist["r"].born)]
    /\ UNCHANGED <<m, mc, mb, rb>>

\* let p = r.deref_mut();  p stays live.
RDerefMut ==
    /\ r # Moved /\ ~rb.live
    /\ r' = Resetable_deref_mut(r).self
    /\ rb' = [live |-> TRUE, pre |-> r, wrote |-> FALSE]
    /\ last' = Obs("deref_mut", "r", << >>, Resetable_deref_mut(r).ret, r, FALSE)
    /\ hist' = [hist EXCEPT !["r"].mut = TRUE]
    /\ UNCHANGED <<m, mc, rc, mb>>

\* *p = v;
RAssign ==
    /\ rb.live
    /\ \E v \in Values :
        /\ r' = Resetable_assign(r, v)
        /\ last' = Obs("assign", "r", <<v>>, << >>, r, TRUE)
        /\ hist' = [hist EXCEPT !["r"].stored = v]
    /\ rb' = [rb EXCEPT !.wrote = TRUE]
    /\ UNCHANGED <<m, mc, rc, mb>>

\* p goes out of scope; last.pre is the instance as it was before deref_mut.
RRelease ==
    /\ rb.live
    /\ rb' = NoBorrow
    /\ last' = Obs("release", "r", << >>, << >>, rb.pre, rb.wrote)
    /\ UNCHANGED <<m, r, mc, rc, mb, hist>>

-----------------------------------------------------------------------------

Next ==
    \/ MNew \/ MNewModified \/ MDefault \/ MDefaultModified
    \/ MSet \/ MGet \/ MGetValueChanged \/ MIsModified \/ MIsUnchanged \/ MDeref
    \/ MIntoInner \/ MIntoInnerChanged \/ MClone \/ MInto
    \/ MDerefMut \/ MAssign \/ MRelease
    \/ RNew \/ RNewModified \/ RDefault \/ RDefaultModified
    \/ RReset
    \/ RSet \/ RGet \/ RGetValueChanged \/ RIsModified \/ RIsUnchanged \/ RDeref
    \/ RIntoInner \/ RIntoInnerChanged \/ RClone
    \/ RDerefMut \/ RAssign \/ RRelease

Spec == Init /\ [][Next]_vars

-----------------------------------------------------------------------------
(* Observers used to state the properties, each by the crate's own method  *)

\* The instance in slot s, and whether it is a Resetable.
Wrapper(s) == CASE s = "m" -> m [] s = "r" -> r [] s = "mc" -> mc [] s = "rc" -> rc

IsResetable(s) == s \in {"r", "rc"}

\* w.is_modified(), w.is_unchanged() and *w for the instance w of slot s's type.
is_modified(s, w) ==
    IF IsResetable(s) THEN Resetable_is_modified(w).ret[1] ELSE Modified_is_modified(w).ret[1]

is_unchanged(s, w) ==
    IF IsResetable(s) THEN Resetable_is_unchanged(w).ret[1] ELSE Modified_is_unchanged(w).ret[1]

value(s, w) ==
    IF IsResetable(s) THEN Resetable_deref(w).ret[1] ELSE Modified_deref(w).ret[1]

\* The receiver of the latest call as it is now, and the slot of its clone.
Cur == Wrapper(last.tgt)

CloneSlot(s) == IF s = "m" THEN "mc" ELSE "rc"

ReadOps == {"get", "get_value_changed", "is_modified", "is_unchanged", "deref"}

-----------------------------------------------------------------------------
(* Properties                                                              *)

\* C1: right after new(v) the wrapper holds v and is_unchanged() is true;
\* after new_modified(v) it holds v and is_modified() is true; after
\* default() it holds T's default with the flag false; after
\* default_modified() it holds T's default with the flag true.  Both types.
C1_Constructors ==
    /\ last.op = "new" =>
          value(last.tgt, Cur) = last.arg[1] /\ is_unchanged(last.tgt, Cur)
    /\ last.op = "new_modified" =>
          value(last.tgt, Cur) = last.arg[1] /\ is_modified(last.tgt, Cur)
    /\ last.op = "default" =>
          value(last.tgt, Cur) = T_default /\ ~is_modified(last.tgt, Cur)
    /\ last.op = "default_modified" =>
          value(last.tgt, Cur) = T_default /\ is_modified(last.tgt, Cur)

C1_Witness ==
    /\ last.op = "new_modified" /\ last.tgt = "r"
    /\ last.arg[1] # T_default
    /\ value("r", r) = last.arg[1] /\ is_modified("r", r)

\* C2: right after w.set(v), w.is_modified() is true and w holds v, whatever
\* the value and the flag were before.
C2_SetMarksAndStores ==
    last.op = "set" =>
        is_modified(last.tgt, Cur) /\ value(last.tgt, Cur) = last.arg[1]

\* set(v) with v equal to the value held, on an unmodified Resetable.
C2_Witness ==
    /\ last.op = "set" /\ last.tgt = "r"
    /\ ~is_modified("r", last.pre) /\ value("r", last.pre) = last.arg[1]
    /\ is_modified("r", r)

\* C3: when a mutable borrow ends and nothing was written through it, the
\* wrapper is_modified() and holds the value it held before the borrow.
C3_BorrowWithoutWrite ==
    (last.op = "release" /\ ~last.wrote) =>
        /\ is_modified(last.tgt, Cur)
        /\ value(last.tgt, Cur) = value(last.tgt, last.pre)

C3_Witness ==
    /\ last.op = "release" /\ ~last.wrote /\ last.tgt = "m"
    /\ ~is_modified("m", last.pre)
    /\ is_modified("m", m)

\* C4: get, get_value_changed, is_modified, is_unchanged and deref leave the
\* flag and the value as they were before the call.
C4_ReadsChangeNothing ==
    last.op \in ReadOps =>
        /\ is_modified(last.tgt, Cur) = is_modified(last.tgt, last.pre)
        /\ value(last.tgt, Cur) = value(last.tgt, last.pre)

C4_Witness ==
    /\ last.op = "get" /\ last.tgt = "m"
    /\ ~is_modified("m", last.pre) /\ ~is_modified("m", m)
    /\ last.ret = <<value("m", m)>>

\* C5: on a Modified instance, no step takes is_modified() from true to
\* false while the instance lives.
C5_ModifiedStaysModified ==
    [][(m # Moved /\ is_modified("m", m) /\ m' # Moved) => is_modified("m", m')]_vars

\* A set on an instance that was already modified.
C5_Witness ==
    /\ last.op = "set" /\ last.tgt = "m"
    /\ is_modified("m", last.pre) /\ is_modified("m", m)

\* C6: right after r.reset(), r.is_unchanged() is true and r holds the value
\* it held immediately before.
C6_ResetKeepsValue ==
    last.op = "reset" =>
        is_unchanged("r", r) /\ value("r", r) = value("r", last.pre)

\* reset of an instance that was mutated to a value other than the default.
C6_Witness ==
    /\ last.op = "reset"
    /\ is_modified("r", last.pre) /\ value("r", last.pre) # T_default
    /\ is_unchanged("r", r) /\ value("r", r) = value("r", last.pre)

\* C7 as stated: in every state, every live wrapper's flag is true exactly
\* when it was accessed through set or a mutable borrow since construction
\* or since the last reset, whichever constructor created it.
C7_FlagIffMutableAccess ==
    \A s \in Slots :
        Wrapper(s) # Moved => (is_modified(s, Wrapper(s)) <=> hist[s].mut)

\* C7 amended: the flag is true exactly when the wrapper was accessed through
\* set or a mutable borrow since construction or the last reset, or it was
\* created already marked (new_modified, default_modified, clone of a marked
\* wrapper) and has not been reset since.
C7_FlagIffMutableAccessOrBornMarked ==
    \A s \in Slots :
        Wrapper(s) # Moved =>
            (is_modified(s, Wrapper(s)) <=> (hist[s].mut \/ hist[s].born))

\* A Resetable that was marked, reset, and not touched since.
C7_Witness ==
    /\ last.op = "reset" /\ is_modified("r", last.pre)
    /\ ~hist["r"].mut /\ ~hist["r"].born
    /\ ~is_modified("r", r)

\* C8: right after m.into(), the Resetable holds the value and the flag the
\* Modified had at the conversion.
C8_IntoPreserves ==
    last.op = "into" =>
        /\ r # Moved
        /\ value("r", r) = value("m", last.pre)
        /\ is_modified("r", r) = is_modified("m", last.pre)

C8_Witness ==
    /\ last.op = "into"
    /\ is_modified("m", last.pre) /\ is_modified("r", r)
    /\ value("r", r) = value("m", last.pre)

\* C9: right after w.clone(), the clone has w's value and flag, and w has the
\* value and flag it had before.
C9_ClonePreserves ==
    last.op = "clone" =>
        /\ value(last.tgt, Wrapper(CloneSlot(last.tgt))) = value(last.tgt, Cur)
        /\ is_modified(last.tgt, Wrapper(CloneSlot(last.tgt))) = is_modified(last.tgt, Cur)
        /\ value(last.tgt, Cur) = value(last.tgt, last.pre)
        /\ is_modified(last.tgt, Cur) = is_modified(last.tgt, last.pre)

C9_Witness ==
    /\ last.op = "clone" /\ last.tgt = "r"
    /\ is_modified("r", r) /\ is_modified("r", rc)
    /\ value("r", rc) = value("r", r)

\* C10: into_inner_changed() returns (v, flag), v the value last stored in
\* the wrapper (constructor, set, or write through a mutable borrow) and flag
\* what is_modified() returned just before; into_inner() returns that v.
C10_IntoInner ==
    /\ last.op = "into_inner_changed" =>
          last.ret = <<hist[last.tgt].stored, is_modified(last.tgt, last.pre)>>
    /\ last.op = "into_inner" =>
          last.ret = <<hist[last.tgt].stored>>

C10_Witness ==
    /\ last.op = "into_inner_changed" /\ last.tgt = "m"
    /\ last.ret = <<hist["m"].stored, TRUE>>
    /\ hist["m"].stored # T_default

\* C11: `*w = v` on a wrapper that was unmodified: once v is written through
\* the reference deref_mut handed out, and after that reference is gone,
\* is_modified() is true and the wrapper holds v.
C11_AssignThroughDerefMut ==
    /\ last.op = "assign" =>
          is_modified(last.tgt, Cur) /\ value(last.tgt, Cur) = last.arg[1]
    /\ (last.op = "release" /\ last.wrote /\ ~is_modified(last.tgt, last.pre)) =>
          is_modified(last.tgt, Cur) /\ value(last.tgt, Cur) = hist[last.tgt].stored

\* m = new(v0); *m = v with v # v0, the borrow just ended.
C11_Witness ==
    /\ last.op = "release" /\ last.wrote /\ last.tgt = "m"
    /\ ~is_modified("m", last.pre) /\ hist["m"].resets = 0 /\ ~hist["m"].born
    /\ value("m", m) # value("m", last.pre)
    /\ is_modified("m", m) /\ value("m", m) = hist["m"].stored

\* C12: for every live wrapper, is_unchanged() is the negation of
\* is_modified(), and a call of either returns accordingly.
C12_Complementary ==
    /\ \A s \in Slots :
          Wrapper(s) # Moved =>
              (is_unchanged(s, Wrapper(s)) <=> ~is_modified(s, Wrapper(s)))
    /\ last.op = "is_unchanged" => (last.ret[1] <=> ~is_modified(last.tgt, Cur))
    /\ last.op = "is_modified" => (last.ret[1] <=> ~is_unchanged(last.tgt, Cur))

C12_Witness ==
    /\ last.op = "is_unchanged" /\ last.tgt = "m"
    /\ last.ret = <<FALSE>> /\ is_modified("m", m)

\* C13: a reset that directly follows a reset leaves value and flag as the
\* first reset left them, and a reset of an unchanged instance leaves value
\* and flag as they were.
C13_ResetIdempotent ==
    [][(last'.op = "reset" /\ (last.op = "reset" \/ is_unchanged("r", r))) =>
          /\ value("r", r') = value("r", r)
          /\ is_modified("r", r') = is_modified("r", r)]_vars

\* The second reset of an instance, on an instance that was unchanged.
C13_Witness ==
    /\ last.op = "reset" /\ hist["r"].resets = 2
    /\ is_unchanged("r", last.pre)
    /\ r = last.pre /\ value("r", r) # T_default

\* C14: on a Resetable, every step that takes the flag from true to false is
\* a reset; and the conversion from a modified Modified yields a modified
\* Resetable.
C14_OnlyResetClears ==
    [][/\ (r # Moved /\ r' # Moved /\ is_modified("r", r) /\ ~is_modified("r", r')) =>
              last'.op = "reset"
       /\ (last'.op = "into" /\ is_modified("m", m)) => is_modified("r", r')]_vars

\* A reset that cleared the flag of an instance marked by set or a borrow.
C14_Witness ==
    /\ last.op = "reset" /\ last.tgt = "r"
    /\ is_modified("r", last.pre) /\ ~is_modified("r", r)
    /\ hist["r"].resets = 1 /\ hist["r"].stored # T_default

\* What Modified does for the call (op, arg) on self: the operations that
\* Modified and Resetable share.
SharedOps ==
    {"new", "new_modified", "default", "default_modified", "set", "get",
     "get_value_changed", "is_modified", "is_unchanged", "deref", "clone",
     "into_inner", "into_inner_changed", "deref_mut", "assign"}

ModifiedDo(op, arg, self) ==
    CASE op = "new" -> [self |-> Modified_new(arg[1]), ret |-> << >>]
      [] op = "new_modified" -> [self |-> Modified_new_modified(arg[1]), ret |-> << >>]
      [] op = "default" -> [self |-> Modified_default, ret |-> << >>]
      [] op = "default_modified" -> [self |-> Modified_default_modified, ret |-> << >>]
      [] op = "set" -> Modified_set(self, arg[1])
      [] op = "get" -> Modified_get(self)
      [] op = "get_value_changed" -> Modified_get_value_changed(self)
      [] op = "is_modified" -> Modified_is_modified(self)
      [] op = "is_unchanged" -> Modified_is_unchanged(self)
      [] op = "deref" -> Modified_deref(self)
      [] op = "clone" -> Modified_clone(self)
      [] op = "into_inner" -> Modified_into_inner(self)
      [] op = "into_inner_changed" -> Modified_into_inner_changed(self)
      [] op = "deref_mut" -> Modified_deref_mut(self)
      [] op = "assign" -> [self |-> Modified_assign(self, arg[1]), ret |-> << >>]

\* C15: every shared operation on a Resetable leaves it holding exactly the
\* Modified that the same operation with the same argument makes of the
\* Modified it held before, and returns what that operation returns (for
\* clone, a Resetable holding the Modified clone).  With equal results of the
\* constructors this gives, step by step, equal values, flags and results
\* for every sequence of shared operations.
C15_ResetableDelegates ==
    (last.tgt = "r" /\ last.op \in SharedOps) =>
        LET d == ModifiedDo(last.op, last.arg,
                            IF last.pre = Moved THEN Moved ELSE last.pre[1])
        IN  /\ r = (IF d.self = Moved THEN Moved ELSE <<d.self>>)
            /\ IF last.op = "clone"
                  THEN last.ret = << <<d.ret[1]>> >> /\ rc = <<d.ret[1]>>
                  ELSE last.ret = d.ret

\* get_value_changed on a never-reset Resetable that was mutated.
C15_Witness ==
    /\ last.tgt = "r" /\ last.op = "get_value_changed"
    /\ hist["r"].resets = 0 /\ hist["r"].mut
    /\ last.ret = <<hist["r"].stored, TRUE>> /\ hist["r"].stored # T_default

\* C16: while a Resetable has been reset and not touched by set or a mutable
\* borrow since, it is unchanged, every read (and clone) leaves it unchanged,
\* and a set or a mutable borrow makes is_modified() true; this holds after
\* the first reset and after every later one.
C16_ResetRestartsTracking ==
    [][(r # Moved /\ hist["r"].resets > 0 /\ ~hist["r"].mut) =>
          /\ is_unchanged("r", r)
          /\ (last'.tgt = "r" /\ last'.op \in ReadOps \cup {"clone"}) =>
                 is_unchanged("r", r')
          /\ (last'.tgt = "r" /\ last'.op \in {"set", "deref_mut"}) =>
                 is_modified("r", r')]_vars

\* A set that marks the instance again after its second (or later) reset.
C16_Witness ==
    /\ last.op = "set" /\ last.tgt = "r"
    /\ hist["r"].resets >= 2
    /\ is_unchanged("r", last.pre) /\ is_modified("r", r)

\* C17: the flag is true from the moment deref_mut hands out the reference:
\* in the state right after deref_mut, in every state in which the reference
\* is live (before and after a write through it), and when it is gone; and
\* no step taken while the reference is live changes the flag.
C17_MarkedAtAcquisition ==
    [][/\ last'.op \in {"deref_mut", "assign", "release"} =>
              is_modified(last'.tgt, IF last'.tgt = "m" THEN m' ELSE r')
       /\ mb'.live => is_modified("m", m')
       /\ rb'.live => is_modified("r", r')
       /\ mb.live => m'[2] = m[2]
       /\ rb.live => r'[1][2] = r[1][2]]_vars

\* The reference to an instance that was unmodified is live, nothing written.
C17_Witness ==
    /\ mb.live /\ ~mb.wrote /\ last.op = "deref_mut"
    /\ ~is_modified("m", mb.pre) /\ is_modified("m", m)

====
